---- MODULE Spec2Model ----
(***************************************************************************)
(* A model of the word guessing game of src/main.rs: the session           *)
(* (start_game), the input loop (read_input, validate_user_input) and the  *)
(* evaluator (check_word).  The Dictionary and replace_unicode live in the *)
(* wordle_cli library crate; they are modelled from their contract.        *)
(*                                                                         *)
(* A string is a sequence of characters; a character is a TLA+ string that *)
(* names it.  Rust's str::len counts UTF-8 bytes and chars() counts        *)
(* characters, so both lengths are kept apart (ByteLen, Len).              *)
(***************************************************************************)
EXTENDS Integers, Sequences, FiniteSets, TLC

VARIABLES
    pc,          \* position of start_game: "start", "read", "lookup", "after_loop", "done", "panicked"; "eval", "evaluated" in the harness
    lang,        \* the language tag handed to start_game
    dict,        \* the Dictionary's entries, records [word, guessed]
    solution,    \* solution_option: None, or the entry get_random_word returned
    counter,     \* start_game's attempt counter
    full_match,  \* start_game's full_match flag
    attempt,     \* the attempt read_input returned in this iteration
    out,         \* what the last step printed, in order
    calls,       \* the collaborator and evaluator calls the last step made, in order
    everRead,    \* whether stdin was read in the session
    everFind,    \* whether Dictionary.find_word was called in the session
    nEvals,      \* how often check_word was called in the session
    nGuessed,    \* how often Dictionary.guessed_word was called
    nVictory,    \* how often a victory line was printed
    nDefeat,     \* how often "Better luck next time!" was printed
    cw_solution, \* evaluator harness: the solution word handed to check_word
    cw_guess,    \* evaluator harness: the guessed word handed to check_word
    cw_result    \* evaluator harness: what check_word did with them

vars == <<pc, lang, dict, solution, counter, full_match, attempt, out, calls,
          everRead, everFind, nEvals, nGuessed, nVictory, nDefeat,
          cw_solution, cw_guess, cw_result>>

harnessVars == <<cw_solution, cw_guess, cw_result>>

-----------------------------------------------------------------------------
(* Bounds *)

\* The longest line typed at the prompt, in characters, line end not counted.
MaxLineLen == 5

\* The longest word handed to check_word by the evaluator harness.
MaxEvalLen == 3

-----------------------------------------------------------------------------
(* Characters and strings *)

NL == "\n"

\* The letters of a normalized word.
Letters == {"e", "o"}

\* What the player can type: letters, an upper-case letter, the umlaut o
\* (a two-byte character) and a blank.
RawChars == {"e", "o", "E", "o_umlaut", " "}

\* UTF-8 width of a character (str::len counts these).
Utf8Width(c) == IF c = "o_umlaut" THEN 2 ELSE 1

RECURSIVE ByteLen(_)
ByteLen(s) == IF s = <<>> THEN 0 ELSE Utf8Width(Head(s)) + ByteLen(Tail(s))

IsWhitespace(c) == c \in {" ", NL}

LowerChar(c) == IF c = "E" THEN "e" ELSE c

\* str::to_lowercase
to_lowercase(s) == [i \in 1..Len(s) |-> LowerChar(s[i])]

RECURSIVE TrimStart(_)
TrimStart(s) ==
    IF s # <<>> /\ IsWhitespace(Head(s)) THEN TrimStart(Tail(s)) ELSE s

RECURSIVE TrimEnd(_)
TrimEnd(s) ==
    IF s # <<>> /\ IsWhitespace(s[Len(s)])
    THEN TrimEnd(SubSeq(s, 1, Len(s) - 1))
    ELSE s

\* str::trim
trim(s) == TrimEnd(TrimStart(s))

\* replace_unicode of the library crate: "de" spells an umlaut out in two
\* letters, every other language folds it to its base letter.
RECURSIVE replace_unicode(_, _)
replace_unicode(s, l) ==
    IF s = <<>> THEN <<>>
    ELSE (IF Head(s) = "o_umlaut"
          THEN (IF l = "de" THEN <<"o", "e">> ELSE <<"o">>)
          ELSE <<Head(s)>>) \o replace_unicode(Tail(s), l)

RECURSIVE SeqsUpTo(_, _)
SeqsUpTo(S, n) ==
    IF n = 0 THEN {<<>>}
    ELSE LET shorter == SeqsUpTo(S, n - 1)
         IN  shorter \cup {Append(s, c) : s \in {t \in shorter : Len(t) = n - 1}, c \in S}

\* The lines stdin can deliver: read_line keeps the line end.
Lines == {Append(s, NL) : s \in SeqsUpTo(RawChars, MaxLineLen)}

-----------------------------------------------------------------------------
(* Option values: None is the empty sequence, Some(x) the sequence of x. *)

None == <<>>

Some(x) == <<x>>

-----------------------------------------------------------------------------
(* Program constants *)

\* let max_attempts = 6;
max_attempts == 6

\* read_input called with a size one short of the dictionary's words.
word_len_short == 5 - 1

\* read_input(5, lang)
word_len == 5

-----------------------------------------------------------------------------
(* The evaluator: check_word *)

\* The three ways check_word prints a guessed character.
Exact == "green"

Present == "yellow"

Absent == "plain"

\* solution_word.find(c) is Some(_)
Contains(s, c) == \E k \in 1..Len(s) : s[k] = c

\* The loop body counting letters: a guessed letter is Present only as often
\* as the solution holds it, counted from the left.
classify_counted(solution_word, guessed_word, i) ==
    IF i + 1 > Len(guessed_word) THEN "panic"
    ELSE IF Contains(solution_word, guessed_word[i + 1])
         THEN (IF i + 1 > Len(solution_word) THEN "panic"
               ELSE IF solution_word[i + 1] = guessed_word[i + 1] THEN Exact
               ELSE IF Cardinality({k \in 1..i : guessed_word[k] = guessed_word[i + 1]})
                         < Cardinality({k \in 1..Len(solution_word) :
                                          solution_word[k] = guessed_word[i + 1]})
                    THEN Present
                    ELSE Absent)
         ELSE Absent

\* The loop body comparing positions only: a letter at the wrong place is
\* printed like a letter the solution does not hold.
classify_positions_only(solution_word, guessed_word, i) ==
    IF i + 1 > Len(guessed_word) \/ i + 1 > Len(solution_word) THEN "panic"
    ELSE IF solution_word[i + 1] = guessed_word[i + 1] THEN Exact
    ELSE Absent

\* The body of check_word's loop for the 0-based index i: the mark it prints,
\* or "panic" when guessed_characters[i] or solution_characters[i] is out of range.
classify(solution_word, guessed_word, i) ==
    IF i + 1 > Len(guessed_word) THEN "panic"
    ELSE IF Contains(solution_word, guessed_word[i + 1])
         THEN (IF i + 1 > Len(solution_word) THEN "panic"
               ELSE IF solution_word[i + 1] = guessed_word[i + 1] THEN Exact
               ELSE Present)
         ELSE Absent

\* The loop running one index too far: for i in 0..=guessed_word.len().
RECURSIVE check_loop_inclusive(_, _, _, _)
check_loop_inclusive(solution_word, guessed_word, i, printed) ==
    IF i > ByteLen(guessed_word)
    THEN [feedback |-> printed, panicked |-> FALSE]
    ELSE LET mark == classify(solution_word, guessed_word, i)
         IN  IF mark = "panic"
             THEN [feedback |-> printed, panicked |-> TRUE]
             ELSE check_loop_inclusive(solution_word, guessed_word, i + 1,
                                       Append(printed, mark))

\* for i in 0..guessed_word.len(): the marks printed so far, and whether the
\* loop panicked.
RECURSIVE check_loop(_, _, _, _)
check_loop(solution_word, guessed_word, i, printed) ==
    IF i >= ByteLen(guessed_word)
    THEN [feedback |-> printed, panicked |-> FALSE]
    ELSE LET mark == classify(solution_word, guessed_word, i)
         IN  IF mark = "panic"
             THEN [feedback |-> printed, panicked |-> TRUE]
             ELSE check_loop(solution_word, guessed_word, i + 1, Append(printed, mark))

\* The full match taken for "the solution starts with the guess".
is_full_match_prefix(solution_word, guessed_word) ==
    /\ Len(guessed_word) <= Len(solution_word)
    /\ SubSeq(solution_word, 1, Len(guessed_word)) = guessed_word

\* String::from(solution_word).eq(guessed_word)
is_full_match(solution_word, guessed_word) == solution_word = guessed_word

\* check_word: the marks it prints, whether it panicked, and the value it
\* returns when it did not.
check_word(solution_word, guessed_word) ==
    LET loop == check_loop(solution_word, guessed_word, 0, <<>>)
    IN  [feedback |-> loop.feedback,
         panicked |-> loop.panicked,
         result   |-> ~loop.panicked /\ is_full_match(solution_word, guessed_word)]

-----------------------------------------------------------------------------
(* Input validation *)

\* The validation letting a longer input pass.
validate_user_input_at_least(user_input, expected_len) ==
    ByteLen(user_input) >= expected_len

\* user_input.len() == expected_len
validate_user_input(user_input, expected_len) == ByteLen(user_input) = expected_len

\* replace_unicode(input.to_lowercase().trim(), lang)
polish(input, l) == replace_unicode(trim(to_lowercase(input)), l)

\* What polish makes of the lines stdin can deliver, per language.
PolishedLines == [l \in {"en", "de"} |-> {polish(line, l) : line \in Lines}]

-----------------------------------------------------------------------------
(* The Dictionary (library crate, modelled from its contract) *)

Entry(w, g) == [word |-> w, guessed |-> g]

\* The words of the sample dictionary: normalized, word_len letters each.
Vocabulary ==
    { <<"o", "o", "o", "o", "o">>,
      <<"e", "o", "o", "o", "e">>,
      <<"o", "e", "e", "o", "o">> }

\* The dictionaries a session can start with: the empty one, the sample
\* words with none solved, and the sample words with one or two solved.
Dictionaries ==
    { {} } \cup
    { {Entry(w, w \in solved) : w \in Vocabulary} :
        solved \in { {},
                     { <<"o", "o", "o", "o", "o">> },
                     { <<"e", "o", "o", "o", "e">>, <<"o", "e", "e", "o", "o">> } } }

\* get_random_word: what it can return.
get_random_word(d) == IF d = {} THEN {None} ELSE {Some(e) : e \in d}

\* find_word: Some(_) exactly for a word of the dictionary.
find_word(d, candidate) ==
    IF \E e \in d : e.word = candidate THEN Some(candidate) ELSE None

\* guessed_word: the dictionary with the solution recorded as solved.
guessed_word(d, sol) ==
    {IF e.word = sol.word THEN Entry(e.word, TRUE) ELSE e : e \in d}

-----------------------------------------------------------------------------
(* Output lines *)

Line(t, ns, ms) == [text |-> t, n |-> ns, marks |-> ms]

MsgWelcome == Line("Welcome! Guess today's word in 6 guesses.", <<>>, <<>>)

MsgEmpty == Line("Maybe the dictionary is empty?", <<>>, <<>>)

MsgAlreadyWon == Line("You won! Come back tomorrow!", <<>>, <<>>)

MsgGuesses(g) == Line("You now have {} guesses.", <<g>>, <<>>)

MsgLastGuess == Line("This is your last guess.", <<>>, <<>>)

MsgBetterLuck == Line("Better luck next time!", <<>>, <<>>)

MsgNotInList == Line("The guessed word is not in the word list.", <<>>, <<>>)

MsgWon == Line("Congratulations! You won!", <<>>, <<>>)

MsgInvalid(expected, entered) ==
    Line("Invalid input: Your guess must have a size of {} characters. You entered {} characters.",
         <<expected, entered>>, <<>>)

\* The line of marks check_word prints.
MsgFeedback(marks) == Line("feedback", <<>>, marks)

Printed(m) == \E k \in 1..Len(out) : out[k] = m

Called(f) == \E k \in 1..Len(calls) : calls[k] = f

-----------------------------------------------------------------------------
(* start_game *)

\* The loop condition off by one: one turn too many.
loop_condition_le(c) == c <= max_attempts

\* while counter < max_attempts
loop_condition(c) == c < max_attempts

\* The remaining guesses counted before this guess is taken off.
remaining_guesses_uncharged(c) == max_attempts - c

\* The remaining guesses one short.
remaining_guesses_short(c) == max_attempts - c - 2

\* let guesses: i32 = max_attempts - counter - 1;
remaining_guesses(c) == max_attempts - c - 1

\* What the loop body prints after check_word returned, for a guess that is
\* no full match.
report(guesses) ==
    <<IF guesses > 1 THEN MsgGuesses(guesses) ELSE MsgLastGuess>>
    \o (IF guesses = 0 THEN <<MsgBetterLuck>> ELSE <<>>)

\* The counter charged before the break.
counter_after_charged(c, matched) == c + 1

\* The counter after the Some(_) arm: break leaves the loop before
\* counter += 1.
counter_after(c, matched) == IF matched THEN c ELSE c + 1

\* The loop left after any evaluated guess.
pc_after_first(c, matched) == "after_loop"

\* Where start_game continues after the Some(_) arm.
pc_after(c, matched) ==
    IF matched THEN "after_loop"
    ELSE IF loop_condition(c) THEN "read" ELSE "after_loop"

\* The test of the solved flag left out: every solution is played.
already_solved_never(sol) == FALSE

\* if solution.guessed
already_solved(sol) == sol.guessed

Init ==
    /\ pc = "start"
    /\ lang \in {"en", "de"}
    /\ dict \in Dictionaries
    /\ solution = None
    /\ counter = 0
    /\ full_match = FALSE
    /\ attempt = <<>>
    /\ out = <<>>
    /\ calls = <<>>
    /\ everRead = FALSE
    /\ everFind = FALSE
    /\ nEvals = 0
    /\ nGuessed = 0
    /\ nVictory = 0
    /\ nDefeat = 0
    /\ cw_solution = <<>>
    /\ cw_guess = <<>>
    /\ cw_result = check_word(<<>>, <<>>)

\* The None arm going on into the attempt loop.
NoSolution_falls_through ==
    /\ out' = <<MsgWelcome, MsgEmpty>>
    /\ calls' = <<"get_random_word">>
    /\ pc' = "read"
    /\ UNCHANGED <<nEvals, nVictory>>

\* The None arm of the match on solution_option.
NoSolution ==
    /\ out' = <<MsgWelcome, MsgEmpty>>
    /\ calls' = <<"get_random_word">>
    /\ pc' = "done"
    /\ UNCHANGED <<nEvals, nVictory>>

\* The solution was solved before: it is checked against itself and the
\* session ends.
AlreadySolved(sol) ==
    LET r == check_word(sol.word, sol.word)
    IN  /\ calls' = <<"get_random_word", "check_word">>
        /\ nEvals' = nEvals + 1
        /\ IF r.panicked
           THEN /\ out' = <<MsgWelcome, MsgFeedback(r.feedback)>>
                /\ pc' = "panicked"
                /\ UNCHANGED nVictory
           ELSE /\ out' = <<MsgWelcome, MsgFeedback(r.feedback), MsgAlreadyWon>>
                /\ pc' = "done"
                /\ nVictory' = nVictory + 1

\* The else branch up to the first test of the loop condition.
EnterLoop ==
    /\ out' = <<MsgWelcome>>
    /\ calls' = <<"get_random_word">>
    /\ pc' = IF loop_condition(0) THEN "read" ELSE "after_loop"
    /\ UNCHANGED <<nEvals, nVictory>>

\* start_game up to the attempt loop: the welcome, the dictionary, the
\* solution, and the two ways a session ends without a guess.
Start ==
    /\ pc = "start"
    /\ \E solution_option \in get_random_word(dict) :
        /\ solution' = solution_option
        /\ IF solution_option = None THEN NoSolution
           ELSE IF already_solved(solution_option[1])
                THEN AlreadySolved(solution_option[1])
                ELSE EnterLoop
    /\ counter' = 0
    /\ full_match' = FALSE
    /\ UNCHANGED <<lang, dict, attempt, everRead, everFind, nGuessed, nDefeat>>
    /\ UNCHANGED harnessVars

\* One turn of read_input's loop on a polished line: a line of the wrong
\* size is reported and asked for again, any other is returned.
ReadTurn(polished) ==
    /\ IF ~validate_user_input(polished, word_len)
       THEN /\ out' = <<MsgInvalid(word_len, ByteLen(polished))>>
            /\ pc' = "read"
            /\ UNCHANGED attempt
       ELSE /\ out' = <<>>
            /\ attempt' = to_lowercase(polished)
            /\ pc' = "lookup"
    /\ calls' = <<"read_line">>
    /\ everRead' = TRUE
    /\ UNCHANGED <<lang, dict, solution, counter, full_match, everFind,
                   nEvals, nGuessed, nVictory, nDefeat>>
    /\ UNCHANGED harnessVars

\* One turn of read_input's loop, on any line stdin can deliver.
ReadLine ==
    /\ pc = "read"
    /\ \E polished \in PolishedLines[lang] : ReadTurn(polished)

\* The None arm charging an attempt for a word that is not in the word list.
NotFoundArm_charged ==
    /\ out' = <<MsgNotInList>>
    /\ calls' = <<"find_word">>
    /\ counter' = counter + 1
    /\ pc' = IF loop_condition(counter + 1) THEN "read" ELSE "after_loop"
    /\ UNCHANGED <<full_match, nEvals, nDefeat>>

\* The None arm of the match on find_word: the word is not in the word list.
NotFoundArm ==
    /\ out' = <<MsgNotInList>>
    /\ calls' = <<"find_word">>
    /\ pc' = IF loop_condition(counter) THEN "read" ELSE "after_loop"
    /\ UNCHANGED <<counter, full_match, nEvals, nDefeat>>

\* The Some(_) arm reporting the remaining guesses before it tests the full
\* match.
FoundArm_reports_first ==
    LET guesses == remaining_guesses(counter)
        r       == check_word(solution[1].word, attempt)
    IN  /\ calls' = <<"find_word", "check_word">>
        /\ nEvals' = nEvals + 1
        /\ IF r.panicked
           THEN /\ out' = <<MsgFeedback(r.feedback)>>
                /\ pc' = "panicked"
                /\ UNCHANGED <<counter, full_match, nDefeat>>
           ELSE /\ full_match' = r.result
                /\ out' = <<MsgFeedback(r.feedback)>> \o report(guesses)
                /\ nDefeat' = IF guesses = 0 THEN nDefeat + 1 ELSE nDefeat
                /\ counter' = counter_after(counter, r.result)
                /\ pc' = pc_after(counter_after(counter, r.result), r.result)

\* The Some(_) arm of the match on find_word: the attempt is evaluated.
FoundArm ==
    LET guesses == remaining_guesses(counter)
        r       == check_word(solution[1].word, attempt)
    IN  /\ calls' = <<"find_word", "check_word">>
        /\ nEvals' = nEvals + 1
        /\ IF r.panicked
           THEN /\ out' = <<MsgFeedback(r.feedback)>>
                /\ pc' = "panicked"
                /\ UNCHANGED <<counter, full_match, nDefeat>>
           ELSE /\ full_match' = r.result
                /\ out' = <<MsgFeedback(r.feedback)>>
                          \o (IF r.result THEN <<>> ELSE report(guesses))
                /\ nDefeat' = IF ~r.result /\ guesses = 0
                              THEN nDefeat + 1 ELSE nDefeat
                /\ counter' = counter_after(counter, r.result)
                /\ pc' = pc_after(counter_after(counter, r.result), r.result)

\* The match on dictionary.find_word(&attempt), to the end of the loop body.
Lookup ==
    /\ pc = "lookup"
    /\ everFind' = TRUE
    /\ attempt' = <<>>
    /\ IF find_word(dict, attempt) = None THEN NotFoundArm ELSE FoundArm
    /\ UNCHANGED <<lang, dict, solution, everRead, nGuessed, nVictory>>
    /\ UNCHANGED harnessVars

\* The end of start_game recording the solution as solved whatever the flag.
AfterLoop_unconditional ==
    /\ pc = "after_loop"
    /\ out' = <<MsgWon>>
    /\ calls' = <<"guessed_word">>
    /\ dict' = guessed_word(dict, solution[1])
    /\ nGuessed' = nGuessed + 1
    /\ nVictory' = nVictory + 1
    /\ pc' = "done"
    /\ UNCHANGED <<lang, solution, counter, full_match, attempt, everRead,
                   everFind, nEvals, nDefeat>>
    /\ UNCHANGED harnessVars

\* After the loop: if full_match, the victory line and Dictionary.guessed_word.
AfterLoop ==
    /\ pc = "after_loop"
    /\ IF full_match
       THEN /\ out' = <<MsgWon>>
            /\ calls' = <<"guessed_word">>
            /\ dict' = guessed_word(dict, solution[1])
            /\ nGuessed' = nGuessed + 1
            /\ nVictory' = nVictory + 1
       ELSE /\ out' = <<>>
            /\ calls' = <<>>
            /\ UNCHANGED <<dict, nGuessed, nVictory>>
    /\ pc' = "done"
    /\ UNCHANGED <<lang, solution, counter, full_match, attempt, everRead,
                   everFind, nEvals, nDefeat>>
    /\ UNCHANGED harnessVars

Next == Start \/ ReadLine \/ Lookup \/ AfterLoop

Spec == Init /\ [][Next]_vars

\* How a session stands.
LoopLeft == pc \in {"after_loop", "done"}

EmptyDictionary == pc = "done" /\ solution = None

AlreadySolvedShortcut == pc = "done" /\ solution # None /\ solution[1].guessed

Won == LoopLeft /\ solution # None /\ ~solution[1].guessed /\ full_match

Lost == LoopLeft /\ solution # None /\ ~solution[1].guessed /\ ~full_match

InDictionary(w) == \E e \in dict : e.word = w

-----------------------------------------------------------------------------
(* The evaluator on its own: check_word applied to any two words. *)

\* The letters of the words handed to check_word: the letters of normalized
\* words, and one more that no sample word holds.
EvalLetters == Letters \cup {"x"}

EvalWords == SeqsUpTo(EvalLetters, MaxEvalLen)

InitEval ==
    /\ pc = "eval"
    /\ lang = "en"
    /\ dict = {}
    /\ solution = None
    /\ counter = 0
    /\ full_match = FALSE
    /\ attempt = <<>>
    /\ out = <<>>
    /\ calls = <<>>
    /\ everRead = FALSE
    /\ everFind = FALSE
    /\ nEvals = 0
    /\ nGuessed = 0
    /\ nVictory = 0
    /\ nDefeat = 0
    /\ cw_solution \in EvalWords
    /\ cw_guess \in EvalWords
    /\ cw_result = check_word(<<>>, <<>>)

Evaluate ==
    /\ pc = "eval"
    /\ cw_result' = check_word(cw_solution, cw_guess)
    /\ pc' = "evaluated"
    /\ UNCHANGED <<cw_solution, cw_guess>>
    /\ UNCHANGED <<lang, dict, solution, counter, full_match, attempt, out, calls,
                   everRead, everFind, nEvals, nGuessed, nVictory, nDefeat>>

NextEval == Evaluate

SpecEval == InitEval /\ [][NextEval]_vars

-----------------------------------------------------------------------------
(* Claims about the session *)

\* C1: the attempt counter starts at 0, never decreases, never exceeds
\* max_attempts, and is max_attempts only once the loop is left, in a session
\* that is lost or won.
C1_AttemptCounter ==
    /\ counter = 0
    /\ [](/\ counter \in 0..max_attempts
          /\ (counter = max_attempts => (Lost \/ Won)))
    /\ [][counter' >= counter]_vars

\* A session that used all its attempts.
C1_Witness == pc = "done" /\ counter = max_attempts /\ Lost

\* C2: a word of the right size that the dictionary does not hold costs no
\* attempt: the counter and the full-match flag stay, check_word is not
\* called, and the session asks for the next guess.
C2_UnknownWordIsFree ==
    [][(pc = "lookup" /\ ~InDictionary(attempt))
        => /\ counter' = counter
           /\ full_match' = full_match
           /\ nEvals' = nEvals
           /\ ~Called("check_word")'
           /\ out' = <<MsgNotInList>>
           /\ pc' = "read"]_vars

\* An unknown word was turned down after some attempts were used.
C2_Witness == pc = "read" /\ out = <<MsgNotInList>> /\ counter > 0

\* C3: read_input returns an input only if its polished size is word_len;
\* any other is reported with its size and asked for again, and such a turn
\* reaches neither find_word nor check_word and leaves the counter alone.
C3_InvalidLengthIsFree ==
    [][pc = "read"
        => \/ /\ pc' = "lookup"
              /\ ByteLen(attempt') = word_len
              /\ out' = <<>>
              /\ UNCHANGED <<counter, full_match, everFind, nEvals>>
           \/ /\ pc' = "read"
              /\ Len(out') = 1
              /\ out'[1].text = MsgInvalid(0, 0).text
              /\ out'[1].n[1] = word_len
              /\ out'[1].n[2] # word_len
              /\ ~Called("find_word")'
              /\ ~Called("check_word")'
              /\ UNCHANGED <<counter, full_match, everFind, nEvals, attempt>>]_vars

\* An input of the wrong size was turned down after some attempts were used.
C3_Witness ==
    /\ pc = "read"
    /\ counter > 0
    /\ Len(out) = 1
    /\ out[1].text = MsgInvalid(0, 0).text
    /\ out[1].n[2] > word_len

C5_GuessedWordOncePerWin ==
    /\ [](/\ nGuessed \in {0, 1}
          /\ (pc # "done" => nGuessed = 0)
          /\ (pc = "done" /\ Won => nGuessed = 1)
          /\ (Lost \/ AlreadySolvedShortcut \/ EmptyDictionary => nGuessed = 0))
    /\ [][full_match' # full_match
            => /\ pc = "lookup"
               /\ InDictionary(attempt)
               /\ attempt = solution[1].word
               /\ full_match']_vars
    /\ [][nGuessed' # nGuessed
            => /\ Won
               /\ Called("guessed_word")'
               /\ [word |-> solution[1].word, guessed |-> TRUE] \in dict']_vars

\* A won session, at its end.
C5_Witness == pc = "done" /\ Won /\ nGuessed = 1 /\ counter > 0

\* C6: a solution that was solved before is checked against itself once, the
\* win is reported and the session ends: no input is read, find_word and
\* guessed_word are not called, and no attempt is used.
C6_AlreadySolvedShortcut ==
    (solution # None /\ solution[1].guessed)
        => /\ pc = "done"
           /\ nEvals = 1
           /\ calls = <<"get_random_word", "check_word">>
           /\ out = <<MsgWelcome,
                      MsgFeedback([i \in 1..Len(solution[1].word) |-> Exact]),
                      MsgAlreadyWon>>
           /\ ~everRead
           /\ ~everFind
           /\ counter = 0
           /\ nGuessed = 0
           /\ nVictory = 1
           /\ solution[1] \in dict

\* A session that took the shortcut.
C6_Witness == AlreadySolvedShortcut /\ Printed(MsgAlreadyWon)

\* C7: with an empty dictionary the session says so and ends: the attempt
\* loop is not entered, no input is read, find_word, check_word and
\* guessed_word are not called, and neither victory nor defeat is reported.
C7_EmptyDictionary ==
    (pc # "start" /\ dict = {})
        => /\ pc = "done"
           /\ solution = None
           /\ out = <<MsgWelcome, MsgEmpty>>
           /\ calls = <<"get_random_word">>
           /\ ~everRead
           /\ ~everFind
           /\ nEvals = 0
           /\ nGuessed = 0
           /\ nVictory = 0
           /\ nDefeat = 0
           /\ counter = 0

\* A session that found the dictionary empty.
C7_Witness == EmptyDictionary /\ Printed(MsgEmpty)

\* C10 as stated: a full match of a guess the dictionary holds sets the
\* flag, leaves the loop at once, and charges the counter for that guess.
C10_WinningGuessIsCounted ==
    [][(pc = "lookup" /\ InDictionary(attempt) /\ attempt = solution[1].word)
        => /\ full_match'
           /\ pc' = "after_loop"
           /\ counter' = counter + 1]_vars

\* C10, amended: a full match of a guess the dictionary holds sets the flag
\* and leaves the loop at once, before the counter is charged: at the loop's
\* exit the counter counts the evaluated guesses but the winning one.
C10_WinningGuessLeavesLoopUncounted ==
    /\ [][(pc = "lookup" /\ InDictionary(attempt) /\ attempt = solution[1].word)
            => /\ full_match'
               /\ pc' = "after_loop"
               /\ counter' = counter]_vars
    /\ []((pc = "after_loop" /\ full_match) => counter = nEvals - 1)
    /\ []((pc = "after_loop" /\ ~full_match) => counter = nEvals)

\* A session won at its third guess, at the loop's exit.
C10_Witness == pc = "after_loop" /\ full_match /\ nEvals = 3

-----------------------------------------------------------------------------
(* Claims about the evaluator *)

\* C8: for words of one length, check_word marks every position of the
\* guess with exactly one of Exact, Present, Absent: Exact iff the solution
\* has the same letter at that position, Absent iff the solution has the
\* letter nowhere, Present iff the solution has the letter, but another one
\* at that position.
C8_Classification ==
    (pc = "evaluated" /\ Len(cw_guess) = Len(cw_solution))
        => /\ ~cw_result.panicked
           /\ Len(cw_result.feedback) = Len(cw_guess)
           /\ \A i \in 1..Len(cw_guess) :
                LET mark    == cw_result.feedback[i]
                    letters == {cw_solution[k] : k \in 1..Len(cw_solution)}
                IN  /\ mark \in {Exact, Present, Absent}
                    /\ (mark = Exact <=> cw_guess[i] = cw_solution[i])
                    /\ (mark = Absent <=> cw_guess[i] \notin letters)
                    /\ (mark = Present <=>
                            (cw_guess[i] \in letters /\ cw_guess[i] # cw_solution[i]))

\* A guess that got each of the three marks.
C8_Witness ==
    /\ pc = "evaluated"
    /\ Len(cw_guess) = Len(cw_solution)
    /\ cw_result.feedback = <<Exact, Present, Absent>>

\* C9: check_word returns true iff the guess and the solution are the same
\* sequence; for words of one length that is iff every position is marked
\* Exact.
C9_FullMatch ==
    pc = "evaluated"
        => /\ (cw_result.result <=> cw_guess = cw_solution)
           /\ (Len(cw_guess) = Len(cw_solution)
                 => (cw_result.result <=>
                        /\ Len(cw_result.feedback) = Len(cw_guess)
                        /\ \A i \in 1..Len(cw_guess) : cw_result.feedback[i] = Exact))

\* A full match of two words of more than one letter.
C9_Witness ==
    /\ pc = "evaluated"
    /\ cw_result.result
    /\ Len(cw_guess) > 1

-----------------------------------------------------------------------------
(* Claims about the messages of the attempt loop *)

\* Some "You now have {} guesses." line is in the last step's output.
PrintedGuesses == \E k \in 1..Len(out) : out[k].text = MsgGuesses(0).text

\* C11 as stated: after a guess the dictionary holds and that is no full
\* match, with remaining = max_attempts - counter - 1, the line with the
\* number is printed iff remaining > 1 and "This is your last guess." iff
\* remaining = 1.
C11_LastGuessOnlyWithOneLeft ==
    [][(pc = "lookup" /\ InDictionary(attempt) /\ attempt # solution[1].word)
        => LET remaining == max_attempts - counter - 1
           IN  /\ PrintedGuesses' <=> remaining > 1
               /\ Printed(MsgLastGuess)' <=> remaining = 1]_vars

\* C12: a reported number of guesses is max_attempts less the guesses
\* evaluated so far, this one included; the first evaluated guess that is no
\* full match reports 5; a turn that evaluates nothing reports no number and
\* leaves the count of evaluated guesses alone.
C12_ReportedNumber ==
    /\ [](\A k \in 1..Len(out) :
            out[k].text = MsgGuesses(0).text
                => out[k].n = <<max_attempts - nEvals>>)
    /\ [][(pc = "lookup" /\ nEvals = 0 /\ InDictionary(attempt)
             /\ attempt # solution[1].word)
            => Printed(MsgGuesses(5))']_vars
    /\ [][(pc = "read" \/ (pc = "lookup" /\ ~InDictionary(attempt)))
            => nEvals' = nEvals /\ ~PrintedGuesses']_vars

\* The second evaluated guess reported four guesses.
C12_Witness == nEvals = 2 /\ Printed(MsgGuesses(4)) /\ pc = "read"

\* C13: "Better luck next time!" is printed once in a lost session and never
\* in a won one; it is printed in the turn of the sixth evaluated guess, which
\* is no full match, before the loop condition is tested again; no session
\* prints both a victory and the defeat.
C13_DefeatMessage ==
    /\ [](/\ nDefeat \in {0, 1}
          /\ (Lost => nDefeat = 1)
          /\ (Won => nDefeat = 0)
          /\ ~(nVictory > 0 /\ nDefeat > 0)
          /\ (Printed(MsgBetterLuck) => nDefeat = 1 /\ Lost))
    /\ [][nDefeat' # nDefeat
            => /\ pc = "lookup"
               /\ counter = max_attempts - 1
               /\ nEvals' = max_attempts
               /\ attempt # solution[1].word
               /\ Printed(MsgBetterLuck)'
               /\ counter' = max_attempts
               /\ pc' = "after_loop"]_vars

\* The turn that printed the defeat.
C13_Witness == pc = "after_loop" /\ Printed(MsgBetterLuck) /\ nDefeat = 1

-----------------------------------------------------------------------------
(* Termination of the attempt loop *)

\* The player enters a word of the right size that the dictionary holds.
ReadKnownWord ==
    /\ pc = "read"
    /\ \E polished \in {e.word : e \in dict} \cap PolishedLines[lang] :
        ReadTurn(polished) /\ pc' = "lookup"

\* The player enters a line of the wrong size.
ReadRejected == ReadLine /\ pc' = "read" /\ counter' = counter

\* The player enters a word of the right size that the dictionary lacks.
ReadUnknownWord == ReadLine /\ pc' = "lookup" /\ ~(InDictionary(attempt))'

\* The session under a player who again and again enters a word of the
\* right size that the dictionary holds; the program itself runs on.
SpecFair ==
    /\ Init
    /\ [][Next]_vars
    /\ WF_vars(Start)
    /\ SF_vars(ReadKnownWord)
    /\ WF_vars(Lookup)
    /\ WF_vars(AfterLoop)

\* C14: check_word is called on at most max_attempts guesses; the loop is
\* left only by the break of a full match or with the counter at
\* max_attempts; with a player who keeps entering known words of the right
\* size the session gets to Won or Lost; and at every prompt a line of the
\* wrong size or an unknown word can be entered, which keeps the loop going
\* with the counter unchanged.
C14_LoopTermination ==
    /\ [](nEvals <= max_attempts)
    /\ [][(pc \in {"read", "lookup"} /\ pc' \notin {"read", "lookup"})
            => /\ pc = "lookup"
               /\ pc' = "after_loop"
               /\ (full_match' \/ counter' = max_attempts)
               /\ (full_match' => attempt = solution[1].word)]_vars
    /\ [](pc = "read" => <>(Won \/ Lost))
    /\ [](pc = "read" => /\ ENABLED <<ReadRejected>>_vars
                         /\ ENABLED <<ReadUnknownWord>>_vars)
    /\ [][(pc = "lookup" /\ ~InDictionary(attempt))
            => pc' = "read" /\ counter' = counter]_vars

\* An unknown word was turned down with one attempt left.
C14_Witness ==
    /\ pc = "read"
    /\ out = <<MsgNotInList>>
    /\ nEvals = max_attempts - 1

-----------------------------------------------------------------------------
(* The evaluator and repeated letters *)

\* How often the letter c stands in the word w.
Occurrences(w, c) == Cardinality({k \in 1..Len(w) : w[k] = c})

\* C15: the mark of a position is a function of the guessed letter, the
\* solution's letter at that position and the set of the solution's letters
\* alone; so a letter the solution holds once is marked Present at every
\* position of the guess where it stands without being exact, however often
\* the guess repeats it.
C15_MarkIgnoresMultiplicity ==
    (pc = "evaluated" /\ Len(cw_guess) = Len(cw_solution))
        => LET letters == {cw_solution[k] : k \in 1..Len(cw_solution)}
               Mark(g, s) == IF g = s THEN Exact
                             ELSE IF g \in letters THEN Present
                             ELSE Absent
           IN  /\ ~cw_result.panicked
               /\ cw_result.feedback =
                    [i \in 1..Len(cw_guess) |-> Mark(cw_guess[i], cw_solution[i])]
               /\ \A c \in letters :
                    Occurrences(cw_solution, c) = 1
                        => \A i \in 1..Len(cw_guess) :
                             (cw_guess[i] = c /\ cw_solution[i] # c)
                                 => cw_result.feedback[i] = Present

\* A letter the solution holds once was guessed at two other places and is
\* marked Present at both.
C15_Witness ==
    /\ pc = "evaluated"
    /\ Len(cw_guess) = Len(cw_solution)
    /\ \E c \in EvalLetters :
         /\ Occurrences(cw_solution, c) = 1
         /\ \E i, j \in 1..Len(cw_guess) :
              /\ i < j
              /\ cw_guess[i] = c
              /\ cw_guess[j] = c
              /\ cw_result.feedback[i] = Present
              /\ cw_result.feedback[j] = Present

-----------------------------------------------------------------------------
(* The last attempt *)

\* C16: a full match at the sixth evaluated guess (counter = 5) wins: the
\* turn prints neither "This is your last guess." nor "Better luck next
\* time!", the victory is printed and guessed_word called after the loop;
\* and at the loop's exit full_match tells whether it was left by the break.
C16_WinAtLastAttempt ==
    /\ [][(pc = "lookup" /\ counter = max_attempts - 1
             /\ InDictionary(attempt) /\ attempt = solution[1].word)
            => /\ full_match'
               /\ pc' = "after_loop"
               /\ Won'
               /\ ~Lost'
               /\ out' = <<MsgFeedback([i \in 1..Len(attempt) |-> Exact])>>
               /\ nDefeat' = 0]_vars
    /\ [][(pc = "after_loop" /\ full_match)
            => /\ out' = <<MsgWon>>
               /\ Called("guessed_word")'
               /\ nGuessed' = 1
               /\ nDefeat' = 0
               /\ pc' = "done"]_vars
    /\ [][(pc = "lookup" /\ pc' = "after_loop")
            => (full_match' <=> (InDictionary(attempt) /\ attempt = solution[1].word))]_vars
    /\ [](pc = "after_loop" => (full_match <=> loop_condition(counter)))

\* A session won with its sixth evaluated guess, at its end.
C16_Witness ==
    /\ pc = "done"
    /\ Won
    /\ nEvals = max_attempts
    /\ counter = max_attempts - 1
    /\ Printed(MsgWon)

-----------------------------------------------------------------------------
(* The evaluator on the guesses a session hands to it *)

\* A dictionary of all normalized words of word_len letters, none solved.
FullDictionary ==
    {Entry(w, FALSE) : w \in {v \in SeqsUpTo(Letters, word_len) : Len(v) = word_len}}

\* What read_input can return and find_word finds in the dictionary d.
AcceptedGuesses(d, l) ==
    {to_lowercase(polished) :
        polished \in {p \in PolishedLines[l] :
                        /\ validate_user_input(p, word_len)
                        /\ find_word(d, to_lowercase(p)) # None}}

\* check_word is handed a solution of the dictionary and a guess that passed
\* read_input and find_word.
InitGuess ==
    /\ pc = "eval"
    /\ lang \in {"en", "de"}
    /\ dict = FullDictionary
    /\ solution = None
    /\ counter = 0
    /\ full_match = FALSE
    /\ attempt = <<>>
    /\ out = <<>>
    /\ calls = <<>>
    /\ everRead = FALSE
    /\ everFind = FALSE
    /\ nEvals = 0
    /\ nGuessed = 0
    /\ nVictory = 0
    /\ nDefeat = 0
    /\ cw_solution \in {e.word : e \in dict}
    /\ cw_guess \in AcceptedGuesses(dict, lang)
    /\ cw_result = check_word(<<>>, <<>>)

SpecGuess == InitGuess /\ [][NextEval]_vars

====
